---- MODULE Spec2Model ----
(***************************************************************************)
(* Model of src/src/main.rs: a 16-bit real-mode CPU simulator (X86Cpu)     *)
(* with a register file, a 64 KiB memory, a stack unit, sign/zero flags,   *)
(* the fetch-decode-execute step and the bounded driver loop of main.      *)
(*                                                                         *)
(* Rust integer arithmetic written with the plain operators (+=, -=, +)    *)
(* panics on overflow when the build has overflow checks (the default of   *)
(* a debug build) and wraps when it has not (a release build).  The build  *)
(* profile is the variable overflow_checks, chosen once in Init.  A slice  *)
(* index outside 0..MEM_SIZE-1 panics in every build.  A panic ends the    *)
(* process: the variable panicked records it and no operation follows.     *)
(***************************************************************************)
EXTENDS Integers, Sequences, FiniteSets, TLC

VARIABLES
    regs,             \* Registers: ax bx cx dx si di sp bp ip flags
    memory,           \* the 65536-byte buffer, kept as its non-zero bytes
    halted,           \* X86Cpu.halted
    panicked,         \* the process has panicked (aborted)
    overflow_checks,  \* build profile: TRUE = arithmetic overflow panics
    last,             \* the last call made on the CPU, with the state before it
    prev,             \* the call made before the last one
    calls,            \* number of calls made on the CPU so far
    program,          \* the byte sequence loaded before the first step
    pc,               \* position of main: "api" (no driver), "loop", "done"
    steps,            \* main's local steps
    result            \* main's local result (-1 until popped)

vars == <<regs, memory, halted, panicked, overflow_checks, last, prev, calls,
          program, pc, steps, result>>

----------------------------------------------------------------------------
(* Constants of the program *)

MEM_SIZE == 65536
STACK_START == 65520
U16 == 65536
U8 == 256
ZF == 64
SF == 128
DRIVER_CAP == 50

(* Bounds of the model *)
MaxCalls == 2
MaxApiCalls == 24

----------------------------------------------------------------------------
(* Memory: a zero-initialised array of MEM_SIZE bytes, represented by the  *)
(* function from the addresses holding a non-zero byte to that byte.  The  *)
(* representation is canonical, so equality of two memories is equality of *)
(* every byte.                                                             *)

ZeroMemory == [a \in {} |-> 0]

MemRead(m, a) == IF a \in DOMAIN m THEN m[a] ELSE 0

MemWrite(m, a, v) ==
    IF v = 0
    THEN [x \in (DOMAIN m) \ {a} |-> m[x]]
    ELSE [x \in (DOMAIN m) \cup {a} |-> IF x = a THEN v ELSE m[x]]

(* Registers::default() *)
DefaultRegisters ==
    [ax |-> 0, bx |-> 0, cx |-> 0, dx |-> 0, si |-> 0, di |-> 0,
     sp |-> 0, bp |-> 0, ip |-> 0, flags |-> 0]

(* A CPU value threaded through the methods: the three fields of X86Cpu,   *)
(* whether a panic has unwound the call, and the indices the call has used *)
(* on self.memory (as usize values, before the bounds check).              *)
Cpu(r, m, h) == [regs |-> r, memory |-> m, halted |-> h, panicked |-> FALSE, acc |-> {}]

Panic(c) == [c EXCEPT !.panicked = TRUE]

(* `a + b` / `a += b` on u16 *)
InRangeU16(x) == x >= 0 /\ x < U16
WrapU16(x) == x % U16

(* `x as i8` of a u8, `x as i16` of a u16, `x as u16` of an i16 *)
AsI8(b) == IF b >= 128 THEN b - U8 ELSE b
AsI16(w) == IF w >= 32768 THEN w - U16 ELSE w
InRangeI16(x) == x >= -32768 /\ x <= 32767
WrapI16(x) == ((x + 32768) % U16) - 32768
I16AsU16(x) == IF x < 0 THEN x + U16 ELSE x

(* flags |= mask  and  flags &= !mask  for a one-bit mask *)
BitSet(f, mask) == (f \div mask) % 2 = 1
OrMask(f, mask) == IF BitSet(f, mask) THEN f ELSE f + mask
AndNotMask(f, mask) == IF BitSet(f, mask) THEN f - mask ELSE f

----------------------------------------------------------------------------
(* X86Cpu::new *)
new == Cpu([DefaultRegisters EXCEPT !.sp = STACK_START], ZeroMemory, FALSE)

(* self.memory[i] as an rvalue: bounds-checked index *)
IndexRead(c, i) ==
    IF c.panicked THEN [cpu |-> c, val |-> 0]
    ELSE IF i >= MEM_SIZE
         THEN [cpu |-> Panic([c EXCEPT !.acc = @ \cup {i}]), val |-> 0]
         ELSE [cpu |-> [c EXCEPT !.acc = @ \cup {i}], val |-> MemRead(c.memory, i)]

(* self.memory[i] = v: bounds-checked index *)
IndexWrite(c, i, v) ==
    IF c.panicked THEN c
    ELSE IF i >= MEM_SIZE
         THEN Panic([c EXCEPT !.acc = @ \cup {i}])
         ELSE [c EXCEPT !.acc = @ \cup {i}, !.memory = MemWrite(@, i, v)]

(* self.regs.ip += 1 *)
AdvanceIp(c) ==
    IF c.panicked THEN c
    ELSE IF InRangeU16(c.regs.ip + 1)
         THEN [c EXCEPT !.regs.ip = @ + 1]
         ELSE IF overflow_checks THEN Panic(c)
              ELSE [c EXCEPT !.regs.ip = WrapU16(@ + 1)]

(* X86Cpu::fetch_u8 *)
fetch_u8(c) ==
    LET rd == IndexRead(c, c.regs.ip)
        c1 == AdvanceIp(rd.cpu)
    IN  [cpu |-> c1, val |-> IF c1.panicked THEN 0 ELSE rd.val]

(* X86Cpu::fetch_u16 *)
fetch_u16(c) ==
    LET low  == fetch_u8(c)
        high == fetch_u8(low.cpu)
    IN  [cpu |-> high.cpu,
         val |-> IF high.cpu.panicked THEN 0 ELSE (high.val * 256) + low.val]

(* self.regs.sp -= 2 *)
DecSp(c) ==
    IF c.panicked THEN c
    ELSE IF InRangeU16(c.regs.sp - 2)
         THEN [c EXCEPT !.regs.sp = @ - 2]
         ELSE IF overflow_checks THEN Panic(c)
              ELSE [c EXCEPT !.regs.sp = WrapU16(@ - 2)]

(* sp advanced by one byte instead of one word *)
IncSpByOne(c) ==
    IF c.panicked THEN c
    ELSE IF InRangeU16(c.regs.sp + 1)
         THEN [c EXCEPT !.regs.sp = @ + 1]
         ELSE IF overflow_checks THEN Panic(c)
              ELSE [c EXCEPT !.regs.sp = WrapU16(@ + 1)]

(* self.regs.sp += 2 *)
IncSp(c) ==
    IF c.panicked THEN c
    ELSE IF InRangeU16(c.regs.sp + 2)
         THEN [c EXCEPT !.regs.sp = @ + 2]
         ELSE IF overflow_checks THEN Panic(c)
              ELSE [c EXCEPT !.regs.sp = WrapU16(@ + 2)]

(* X86Cpu::push *)
push(c, val) ==
    LET c1   == DecSp(c)
        addr == c1.regs.sp
        c2   == IndexWrite(c1, addr, val % U8)
    IN  IndexWrite(c2, addr + 1, val \div U8)

(* X86Cpu::pop: the high byte at addr + 1 is read first *)
pop(c) ==
    LET addr == c.regs.sp
        hi   == IndexRead(c, addr + 1)
        lo   == IndexRead(hi.cpu, addr)
        c1   == IncSp(lo.cpu)
    IN  [cpu |-> c1,
         val |-> IF c1.panicked THEN 0 ELSE (hi.val * 256) + lo.val]

(* set_sz with the two bits assigned into a cleared flag word instead of   *)
(* merged into the existing one                                            *)
set_sz_assign(c, val) ==
    IF c.panicked THEN c
    ELSE [c EXCEPT !.regs.flags = (IF val = 0 THEN ZF ELSE 0)
                                  + (IF val >= 32768 THEN SF ELSE 0)]

(* set_sz with the sign mask mistyped as 0x800 *)
set_sz_mask(c, val) ==
    IF c.panicked THEN c
    ELSE LET f1 == IF val = 0 THEN OrMask(c.regs.flags, ZF)
                   ELSE AndNotMask(c.regs.flags, ZF)
             f2 == IF val >= 32768 THEN OrMask(f1, 2048)
                   ELSE AndNotMask(f1, 2048)
         IN  [c EXCEPT !.regs.flags = f2]

(* X86Cpu::set_sz *)
set_sz(c, val) ==
    IF c.panicked THEN c
    ELSE LET f1 == IF val = 0 THEN OrMask(c.regs.flags, ZF)
                   ELSE AndNotMask(c.regs.flags, ZF)
             f2 == IF val >= 32768 THEN OrMask(f1, SF)
                   ELSE AndNotMask(f1, SF)
         IN  [c EXCEPT !.regs.flags = f2]

----------------------------------------------------------------------------
(* The arms of the match in X86Cpu::step, each applied to the CPU after    *)
(* the opcode byte has been fetched.                                       *)

(* 0xB8 / 0xBB / 0xB9: self.regs.<reg> = self.fetch_u16() *)
mov_imm16(c, reg) ==
    LET f == fetch_u16(c)
    IN  IF f.cpu.panicked THEN f.cpu
        ELSE [f.cpu EXCEPT !.regs = [@ EXCEPT ![reg] = f.val]]

(* 0x40: ax = ax.wrapping_add(1); set_sz(ax) *)
inc_ax(c) ==
    LET v == WrapU16(c.regs.ax + 1)
    IN  set_sz([c EXCEPT !.regs.ax = v], v)

(* 0x48: ax = ax.wrapping_sub(1); set_sz(ax) *)
dec_ax(c) ==
    LET v == WrapU16(c.regs.ax - 1)
    IN  set_sz([c EXCEPT !.regs.ax = v], v)

(* 0x49: cx = cx.wrapping_sub(1); set_sz(cx) *)
dec_cx(c) ==
    LET v == WrapU16(c.regs.cx - 1)
    IN  set_sz([c EXCEPT !.regs.cx = v], v)

(* 0x50: let v = ax; push(v) *)
push_ax(c) == push(c, c.regs.ax)

(* 0x58: ax = pop() *)
pop_ax(c) ==
    LET p == pop(c)
    IN  IF p.cpu.panicked THEN p.cpu
        ELSE [p.cpu EXCEPT !.regs.ax = p.val]

(* (a as u32) * (b as u32): the product fits u32 and cannot overflow.  It  *)
(* is kept as its two 16-bit halves, built from the partial products of a  *)
(* with the low and the high byte of b, each below 2^24.                   *)
MulU32(a, b) ==
    LET plo == a * (b % U8)
        phi == a * (b \div U8)
        low == plo + (phi % U8) * U8
    IN  [lo |-> low % U16, hi |-> (phi \div U8) + (low \div U16)]

(* 0xF7: selector 0xE1 is MUL CX on u32, anything else does nothing *)
mul_cx(c) ==
    LET f == fetch_u8(c)
        res == MulU32(f.cpu.regs.ax, f.cpu.regs.cx)
    IN  IF f.cpu.panicked THEN f.cpu
        ELSE IF f.val = 225
             THEN [f.cpu EXCEPT !.regs.ax = res.lo,      \* res as u16
                                !.regs.dx = res.hi]      \* (res >> 16) as u16
             ELSE f.cpu

(* 0x81: selector 0xF9 is CMP CX, imm16, anything else does nothing *)
cmp_cx(c) ==
    LET f == fetch_u8(c)
    IN  IF f.cpu.panicked THEN f.cpu
        ELSE IF f.val = 249
             THEN LET imm == fetch_u16(f.cpu)
                  IN  IF imm.cpu.panicked THEN imm.cpu
                      ELSE set_sz(imm.cpu, WrapU16(imm.cpu.regs.cx - imm.val))
             ELSE f.cpu

(* JNZ with the operand byte taken as an unsigned offset *)
jnz_unsigned(c) ==
    LET f == fetch_u8(c)
    IN  IF f.cpu.panicked THEN f.cpu
        ELSE IF ~BitSet(f.cpu.regs.flags, ZF)
             THEN [f.cpu EXCEPT !.regs.ip = WrapU16(@ + f.val)]
             ELSE f.cpu

(* 0x75: JNZ rel8, the sum taken in i16 *)
jnz(c) ==
    LET f == fetch_u8(c)
        offset == AsI8(f.val)
        sum == AsI16(f.cpu.regs.ip) + offset
    IN  IF f.cpu.panicked THEN f.cpu
        ELSE IF ~BitSet(f.cpu.regs.flags, ZF)
             THEN IF InRangeI16(sum)
                  THEN [f.cpu EXCEPT !.regs.ip = I16AsU16(sum)]
                  ELSE IF overflow_checks THEN Panic(f.cpu)
                       ELSE [f.cpu EXCEPT !.regs.ip = I16AsU16(WrapI16(sum))]
             ELSE f.cpu

(* 0xF4 and the default arm: self.halted = true *)
halt(c) == [c EXCEPT !.halted = TRUE]

(* The twelve opcodes the match names *)
Recognized == {184, 187, 185, 64, 72, 73, 80, 88, 247, 129, 117, 244}

(* match opcode { ... } *)
dispatch(c, opcode) ==
    CASE opcode = 184 -> mov_imm16(c, "ax")
      [] opcode = 187 -> mov_imm16(c, "bx")
      [] opcode = 185 -> mov_imm16(c, "cx")
      [] opcode = 64  -> inc_ax(c)
      [] opcode = 72  -> dec_ax(c)
      [] opcode = 73  -> dec_cx(c)
      [] opcode = 80  -> push_ax(c)
      [] opcode = 88  -> pop_ax(c)
      [] opcode = 247 -> mul_cx(c)
      [] opcode = 129 -> cmp_cx(c)
      [] opcode = 117 -> jnz(c)
      [] opcode = 244 -> halt(c)
      [] OTHER        -> halt(c)

(* step without the early return on halted *)
step_always(c) ==
    LET f == fetch_u8(c)
    IN  IF f.cpu.panicked THEN f.cpu ELSE dispatch(f.cpu, f.val)

(* X86Cpu::step *)
step(c) ==
    IF c.halted THEN c
    ELSE LET f == fetch_u8(c)
         IN  IF f.cpu.panicked THEN f.cpu ELSE dispatch(f.cpu, f.val)

(* load_factorial_program *)
FactorialProgram ==
    <<184, 1, 0, 185, 5, 0, 247, 225, 73, 129, 249, 1, 0, 117, 247, 80, 244>>

(* for (i, &byte) in program.iter().enumerate() { cpu.memory[i] = byte } *)
RECURSIVE LoadAt(_, _, _)
LoadAt(m, bytes, at) ==
    IF bytes = <<>> THEN m
    ELSE LoadAt(MemWrite(m, at % MEM_SIZE, Head(bytes)), Tail(bytes), at + 1)

load_program(c, bytes) == [c EXCEPT !.memory = LoadAt(@, bytes, 0)]

load_factorial_program(c) == load_program(c, FactorialProgram)

(* Inputs of the model *)
PushValues == {0, 4660, 65408}
SzValues == {0, 32767, 32768, 65535}
UnitIps == {0, 32765, 32766, 32767, 32768, 65533, 65534, 65535}
UnitSps == {0, 1, 2, 3, 65520, 65533, 65534, 65535}
UnitFlags == {0, 1, 64, 128, 192, 65343, 65535}
UnitRegs == {<<65535, 0>>, <<4660, 5>>, <<65535, 65535>>}
UnitCodes ==
    {<<>>, <<255>>, <<244>>, <<52, 18>>,
     <<117, 0>>, <<117, 1>>, <<117, 127>>, <<117, 128>>, <<117, 254>>, <<117, 255>>,
     <<184, 52, 18>>, <<187, 52, 18>>, <<185, 52, 18>>,
     <<64>>, <<72>>, <<73>>, <<80>>, <<88>>,
     <<247, 225>>, <<247, 0>>, <<129, 249, 5, 0>>, <<129, 0, 5, 0>>}
Programs ==
    {FactorialProgram, <<>>, <<255>>, <<244>>,
     <<88, 88, 88, 88, 88, 88, 88, 88, 244>>,
     <<117, 253>>, <<117, 254>>,
     <<184, 255, 255, 64, 72, 80, 88, 117, 0, 244>>,
     <<247, 0, 129, 0, 185, 0, 0, 73, 187, 1, 2, 244>>}
DriverPrograms == {FactorialProgram, <<117, 254>>, <<255>>, <<117, 253>>, <<88, 244>>}

----------------------------------------------------------------------------
(* The state machine.  Every action is one call made on the CPU by its     *)
(* owner: a method of X86Cpu run to completion (or to its panic).          *)

State(c) == [regs |-> c.regs, memory |-> c.memory, halted |-> c.halted]

Current == Cpu(regs, memory, halted)

NoCall ==
    [op |-> "none", arg |-> 0, ret |-> 0, acc |-> {}, panicked |-> FALSE,
     pre |-> State(new)]

(* The effect of a call `op(arg)` that leaves the CPU as c and returns ret *)
Call(op, arg, c, ret) ==
    /\ regs' = c.regs
    /\ memory' = c.memory
    /\ halted' = c.halted
    /\ panicked' = c.panicked
    /\ last' = [op |-> op, arg |-> arg, ret |-> ret, acc |-> c.acc,
                panicked |-> c.panicked, pre |-> State(Current)]
    /\ prev' = last
    /\ calls' = calls + 1
    /\ UNCHANGED <<overflow_checks, program>>

Limit == IF pc = "unit" THEN MaxCalls ELSE MaxApiCalls

CanCall == ~panicked /\ pc \in {"unit", "api"} /\ calls < Limit

(* cpu.step() *)
Step ==
    /\ CanCall
    /\ Call("step", 0, step(Current), 0)
    /\ UNCHANGED <<pc, steps, result>>

(* cpu.pop() *)
Pop ==
    /\ CanCall
    /\ LET p == pop(Current) IN Call("pop", 0, p.cpu, p.val)
    /\ UNCHANGED <<pc, steps, result>>

(* cpu.push(v) *)
Push ==
    /\ CanCall
    /\ \E v \in PushValues : Call("push", v, push(Current, v), 0)
    /\ UNCHANGED <<pc, steps, result>>

(* cpu.fetch_u8() *)
FetchU8 ==
    /\ CanCall
    /\ LET f == fetch_u8(Current) IN Call("fetch_u8", 0, f.cpu, f.val)
    /\ UNCHANGED <<pc, steps, result>>

(* cpu.fetch_u16() *)
FetchU16 ==
    /\ CanCall
    /\ LET f == fetch_u16(Current) IN Call("fetch_u16", 0, f.cpu, f.val)
    /\ UNCHANGED <<pc, steps, result>>

(* cpu.set_sz(v) *)
SetSz ==
    /\ CanCall
    /\ \E v \in SzValues : Call("set_sz", v, set_sz(Current, v), 0)
    /\ UNCHANGED <<pc, steps, result>>

(* main: one iteration of `while !cpu.halted && steps < 50` *)
MainStep ==
    /\ pc = "loop"
    /\ ~panicked
    /\ ~halted /\ steps < DRIVER_CAP
    /\ Call("step", 0, step(Current), 0)
    /\ steps' = steps + 1
    /\ UNCHANGED <<pc, result>>

(* main: the loop is left and `let result = cpu.pop()` runs *)
MainPop ==
    /\ pc = "loop"
    /\ ~panicked
    /\ ~(~halted /\ steps < DRIVER_CAP)
    /\ LET p == pop(Current)
       IN  /\ Call("pop", 0, p.cpu, p.val)
           /\ result' = IF p.cpu.panicked THEN -1 ELSE p.val
    /\ pc' = "done"
    /\ UNCHANGED steps

(* The state after construction and program loading *)
Start(c, bytes, mode) ==
    /\ regs = c.regs
    /\ memory = c.memory
    /\ halted = c.halted
    /\ panicked = FALSE
    /\ overflow_checks \in BOOLEAN
    /\ last = NoCall
    /\ prev = NoCall
    /\ calls = 0
    /\ program = bytes
    /\ pc = mode
    /\ steps = 0
    /\ result = -1

(* Spec: a CPU fresh from new(), a program loaded at address 0, then any   *)
(* sequence of step and pop calls.                                         *)
Init == \E p \in Programs : Start(load_program(new, p), p, "api")

Next == Step \/ Pop

Spec == Init /\ [][Next]_vars

(* SpecMain: main, with the loaded program drawn from DriverPrograms *)
InitMain == \E p \in DriverPrograms : Start(load_program(new, p), p, "loop")

NextMain == MainStep \/ MainPop

SpecMain == InitMain /\ [][NextMain]_vars

(* SpecUnit: the methods applied to a CPU in an arbitrary state *)
UnitCpu(ip, sp, flags, ax, cx, code) ==
    Cpu([DefaultRegisters EXCEPT !.ip = ip, !.sp = sp, !.flags = flags,
                                 !.ax = ax, !.cx = cx],
        LoadAt(ZeroMemory, code, ip), FALSE)

InitUnit ==
    \/ \E ip \in UnitIps, code \in UnitCodes, f \in {0, ZF}, r \in UnitRegs :
          Start(UnitCpu(ip, STACK_START, f, r[1], r[2], code), code, "unit")
    \/ \E sp \in UnitSps, f \in UnitFlags :
          Start(UnitCpu(0, sp, f, 4660, 5, <<>>), <<>>, "unit")

NextUnit == Step \/ Pop \/ Push \/ FetchU8 \/ FetchU16 \/ SetSz

SpecUnit == InitUnit /\ [][NextUnit]_vars

----------------------------------------------------------------------------
(* Properties *)

(* The opcode byte a step from state `pre` fetches *)
OpcodeAt(pre) == MemRead(pre.memory, pre.regs.ip)

(* The last call was a step taken while Running *)
RunningStep == last.op = "step" /\ ~last.pre.halted

EightPops == <<88, 88, 88, 88, 88, 88, 88, 88, 244>>

(* C1: with the factorial program loaded into a fresh CPU, main's loop     *)
(* ends with the CPU Halted after at most 50 steps and the pop that        *)
(* follows returns 120.  The run never panics, so the loop always has its  *)
(* next iteration or its exit; it halts on exactly its 20th step.          *)
C1_FactorialHalts120 ==
    (program = FactorialProgram /\ pc \in {"loop", "done"}) =>
        /\ ~panicked
        /\ steps <= DRIVER_CAP
        /\ pc = "loop" => (steps < 20 /\ ~halted) \/ (steps = 20 /\ halted)
        /\ pc = "done" => (halted /\ steps <= DRIVER_CAP /\ result = 120)

C1_Witness ==
    program = FactorialProgram /\ pc = "done" /\ halted /\ result = 120 /\ steps = 20

(* C2: the CPU starts Running, and a step taken while Running ends in      *)
(* Halted iff the opcode fetched is 0xF4 or is not a recognized opcode;    *)
(* every other step leaves the CPU Running (and the step completes).       *)
C2_HaltedIffHaltOrUnknown ==
    /\ (calls = 0 => ~halted)
    /\ RunningStep =>
          /\ ~panicked
          /\ halted <=> (OpcodeAt(last.pre) = 244 \/ OpcodeAt(last.pre) \notin Recognized)

(* C3: once halted is true it stays true under every later step and pop,   *)
(* and a step made while halted changes no register, no flag, no memory    *)
(* byte and not the halted flag.                                           *)
C3_HaltedTerminal ==
    [][ /\ halted => halted'
        /\ (halted /\ calls' = calls + 1 /\ last'.op = "step") =>
               (regs' = regs /\ memory' = memory /\ halted' /\ ~panicked')
      ]_vars

C3_Witness ==
    /\ halted
    /\ last.op = "step" /\ last.pre.halted
    /\ prev.op = "pop" /\ prev.pre.halted

(* C4: a step from Running whose opcode byte is not a recognized opcode    *)
(* sets halted on that step without aborting, advances ip by exactly 1 and *)
(* changes nothing else; a further step leaves the state unchanged.        *)
C4_UnrecognizedOpcode ==
    /\ (RunningStep /\ OpcodeAt(last.pre) \notin Recognized) =>
          /\ halted /\ ~panicked
          /\ regs = [last.pre.regs EXCEPT !.ip = (@ + 1) % U16]
          /\ memory = last.pre.memory
    /\ (last.op = "step" /\ last.pre.halted) =>
          (regs = last.pre.regs /\ memory = last.pre.memory /\ halted /\ ~panicked)

(* C5: for every 16-bit v and every starting sp, push(v) completes and a   *)
(* pop() immediately after it returns v and restores sp.                   *)
C5_PushPopRoundTrip ==
    /\ last.op = "push" => ~panicked
    /\ (last.op = "pop" /\ prev.op = "push") =>
          /\ ~panicked
          /\ last.ret = prev.arg
          /\ regs.sp = prev.pre.regs.sp

(* C6: every index fetch_u8, fetch_u16, push and pop use on memory (the    *)
(* byte at ip, at sp and at sp + 1) is in 0..65535, for every ip and sp.   *)
C6_NoOutOfBounds ==
    last.op \in {"fetch_u8", "fetch_u16", "push", "pop"} =>
        \A i \in last.acc : i >= 0 /\ i < MEM_SIZE

(* C7: sp arithmetic is modular and undetected: a pop with sp >= 0xFFFE    *)
(* (a push with sp < 2) completes normally with sp = (sp + 2) mod 65536    *)
(* (sp = (sp - 2) mod 65536) and does not halt; eight pop-into-ax steps    *)
(* from sp = 0xFFF0 leave sp = 0 with the CPU Running.                     *)
C7_ModularSp ==
    /\ (last.op = "pop" /\ last.pre.regs.sp >= 65534) =>
          /\ ~panicked
          /\ regs.sp = (last.pre.regs.sp + 2) % U16
          /\ halted = last.pre.halted
    /\ (last.op = "push" /\ last.pre.regs.sp < 2) =>
          /\ ~panicked
          /\ regs.sp = (last.pre.regs.sp - 2) % U16
          /\ halted = last.pre.halted
    /\ (program = EightPops /\ calls = 8 /\ last.op = "step" /\ last.pre.regs.ip = 7) =>
          (~panicked /\ regs.sp = 0 /\ ~halted)

(* C8: fetch_u8 returns mem[ip] and sets ip to (ip + 1) mod 65536;         *)
(* fetch_u16 returns mem[ip] + 256 * mem[(ip + 1) mod 65536] and sets ip   *)
(* to (ip + 2) mod 65536; neither fails, for every ip, and neither changes *)
(* memory or another register.                                             *)
C8_Fetch ==
    /\ last.op = "fetch_u8" =>
          /\ ~panicked
          /\ last.ret = MemRead(last.pre.memory, last.pre.regs.ip)
          /\ regs = [last.pre.regs EXCEPT !.ip = (@ + 1) % U16]
          /\ memory = last.pre.memory /\ halted = last.pre.halted
    /\ last.op = "fetch_u16" =>
          /\ ~panicked
          /\ last.ret = MemRead(last.pre.memory, last.pre.regs.ip)
                        + 256 * MemRead(last.pre.memory, (last.pre.regs.ip + 1) % U16)
          /\ regs = [last.pre.regs EXCEPT !.ip = (@ + 2) % U16]
          /\ memory = last.pre.memory /\ halted = last.pre.halted

(* C9: after set_sz(v) bit 6 (Zero) of the flag word is set iff v = 0, bit *)
(* 7 (Sign) is set iff v >= 0x8000, and bits 0..5 and 8..15 are as before; *)
(* nothing else changes.                                                   *)
C9_SetSz ==
    last.op = "set_sz" =>
        /\ ~panicked
        /\ (regs.flags \div 64) % 4 =
               (IF last.arg = 0 THEN 1 ELSE 0) + (IF last.arg >= 32768 THEN 2 ELSE 0)
        /\ regs.flags % 64 = last.pre.regs.flags % 64
        /\ regs.flags \div 256 = last.pre.regs.flags \div 256
        /\ [regs EXCEPT !.flags = 0] = [last.pre.regs EXCEPT !.flags = 0]
        /\ memory = last.pre.memory /\ halted = last.pre.halted

C9_Witness ==
    /\ last.op = "set_sz" /\ last.arg = 32768
    /\ last.pre.regs.flags = 65343
    /\ regs.flags = 65343 + 128

(* C10: a step executing 0x75 at address a with operand byte b sets ip to  *)
(* (a + 2 + s) mod 65536 (s = b as a signed byte) when Zero is clear and   *)
(* to (a + 2) mod 65536 when Zero is set, for every a, and changes nothing *)
(* else.                                                                   *)
C10_Jnz ==
    (RunningStep /\ OpcodeAt(last.pre) = 117) =>
        LET a == last.pre.regs.ip
            b == MemRead(last.pre.memory, (a + 1) % U16)
            s == IF b >= 128 THEN b - 256 ELSE b
            zero == (last.pre.regs.flags \div 64) % 2 = 1
        IN  /\ ~panicked
            /\ regs = [last.pre.regs EXCEPT
                          !.ip = IF zero THEN (a + 2) % U16 ELSE (a + 2 + s) % U16]
            /\ memory = last.pre.memory /\ halted = last.pre.halted

(* The bytes after the opcode of a step from state `pre` *)
ByteAt(pre, k) == MemRead(pre.memory, (pre.regs.ip + k) % U16)

(* hi * 65536 + lo = a * b for 16-bit a, b, hi, lo.  With a = 256 * a1 +   *)
(* a0 the product is 65536 * q + 256 * m + l, where a1 * b = 256 * q + m   *)
(* and l = a0 * b; every term stays below 2^31.                            *)
ProductIs(a, b, hi, lo) ==
    LET l == (a % 256) * b
        q == ((a \div 256) * b) \div 256
        m == ((a \div 256) * b) % 256
        t == 256 * m + l
    IN  /\ hi \in 0..65535 /\ lo \in 0..65535
        /\ lo = t % 65536
        /\ hi = q + (t \div 65536)

(* C11: a step executing 0xF7 0xE1 leaves ax = (ax * cx) mod 65536 and     *)
(* dx = (ax * cx) div 65536, for every ax and cx, keeps cx and the flag    *)
(* word, and advances ip by exactly 2.                                     *)
C11_Mul ==
    (RunningStep /\ OpcodeAt(last.pre) = 247 /\ ByteAt(last.pre, 1) = 225) =>
        LET r == last.pre.regs IN
        /\ ~panicked
        /\ ProductIs(r.ax, r.cx, regs.dx, regs.ax)
        /\ regs = [r EXCEPT !.ax = regs.ax, !.dx = regs.dx, !.ip = (r.ip + 2) % U16]
        /\ memory = last.pre.memory /\ halted = last.pre.halted

(* C12: a step executing 0x81 0xF9 imm16 sets Zero iff cx = imm and Sign   *)
(* iff bit 15 of (cx - imm) mod 65536 is set, keeps cx, every register but *)
(* ip, the other flag bits and memory, and advances ip by exactly 4.       *)
C12_Cmp ==
    (RunningStep /\ OpcodeAt(last.pre) = 129 /\ ByteAt(last.pre, 1) = 249) =>
        LET r == last.pre.regs
            imm == ByteAt(last.pre, 2) + 256 * ByteAt(last.pre, 3)
            diff == (r.cx - imm) % 65536
        IN  /\ ~panicked
            /\ ((regs.flags \div 64) % 2 = 1) <=> (r.cx = imm)
            /\ ((regs.flags \div 128) % 2 = 1) <=> (diff >= 32768)
            /\ regs.flags % 64 = r.flags % 64
            /\ regs.flags \div 256 = r.flags \div 256
            /\ [regs EXCEPT !.flags = 0] = [r EXCEPT !.flags = 0, !.ip = (r.ip + 4) % U16]
            /\ memory = last.pre.memory /\ halted = last.pre.halted

(* C13: a step executing 0xF7 with a selector other than 0xE1, or 0x81     *)
(* with a selector other than 0xF9, advances ip by exactly 2 and changes   *)
(* nothing else (the immediate of 0x81 is not consumed).                   *)
C13_OtherSelector ==
    (RunningStep /\ \/ OpcodeAt(last.pre) = 247 /\ ByteAt(last.pre, 1) # 225
                    \/ OpcodeAt(last.pre) = 129 /\ ByteAt(last.pre, 1) # 249) =>
        /\ ~panicked
        /\ regs = [last.pre.regs EXCEPT !.ip = (@ + 2) % U16]
        /\ memory = last.pre.memory /\ halted = last.pre.halted

(* C14: 0x40 sets ax = (ax + 1) mod 65536, 0x48 sets ax = (ax - 1) mod     *)
(* 65536, 0x49 sets cx = (cx - 1) mod 65536; Zero and Sign are then those  *)
(* of the new value, and the step never fails.                             *)
C14_IncDec ==
    (RunningStep /\ OpcodeAt(last.pre) \in {64, 72, 73}) =>
        LET r == last.pre.regs
            op == OpcodeAt(last.pre)
            v == IF op = 64 THEN (r.ax + 1) % 65536
                 ELSE IF op = 72 THEN (r.ax - 1) % 65536
                 ELSE (r.cx - 1) % 65536
        IN  /\ ~panicked
            /\ regs.ax = IF op = 73 THEN r.ax ELSE v
            /\ regs.cx = IF op = 73 THEN v ELSE r.cx
            /\ ((regs.flags \div 64) % 2 = 1) <=> (v = 0)
            /\ ((regs.flags \div 128) % 2 = 1) <=> (v >= 32768)
            /\ (r.ax = 65535 /\ op = 64) =>
                   (regs.ax = 0 /\ (regs.flags \div 64) % 4 = 1)
            /\ (r.cx = 0 /\ op = 73) =>
                   (regs.cx = 65535 /\ (regs.flags \div 64) % 4 = 2)

(* C15: in every state reached from construction by step and pop calls,    *)
(* every bit of the flag word other than 0x40 and 0x80 is zero.            *)
C15_ReservedFlagBits ==
    /\ regs.flags % 64 = 0
    /\ regs.flags \div 256 = 0

C15_Witness ==
    /\ last.op = "step" /\ OpcodeAt(last.pre) = 72
    /\ last.pre.regs.flags = 64 /\ regs.flags = 128

(* C16: for every loaded program main's loop makes at most 50 step calls,  *)
(* stops earlier exactly when the CPU becomes Halted, and then performs    *)
(* the result pop.                                                         *)
C16_BoundedDriver ==
    pc \in {"loop", "done"} =>
        /\ steps <= DRIVER_CAP
        /\ calls = steps + (IF pc = "done" THEN 1 ELSE 0)
        /\ pc = "loop" => ~panicked
        /\ (pc = "loop" /\ halted) => (last.op = "step" /\ ~last.pre.halted)
        /\ pc = "done" =>
              /\ last.op = "pop"
              /\ halted \/ steps = DRIVER_CAP
              /\ steps < DRIVER_CAP => halted

(* C17: a pop call made while Halted returns mem[sp] + 256 * mem[sp + 1],  *)
(* advances sp by 2 and leaves halted, ip, flags and memory unchanged,     *)
(* exactly as a pop made while Running.                                    *)
C17_PopWhenHalted ==
    (last.op = "pop" /\ last.pre.halted) =>
        LET r == last.pre.regs
            running == pop(Cpu(r, last.pre.memory, FALSE))
        IN  /\ panicked = running.cpu.panicked
            /\ regs = running.cpu.regs /\ memory = running.cpu.memory
            /\ last.ret = running.val
            /\ ~panicked
            /\ last.ret = MemRead(last.pre.memory, r.sp)
                          + 256 * MemRead(last.pre.memory, r.sp + 1)
            /\ regs = [r EXCEPT !.sp = (r.sp + 2) % U16]
            /\ memory = last.pre.memory
            /\ halted

(* C18: a step executing 0xB8, 0xBB or 0xB9 followed by lo, hi sets ax, bx *)
(* or cx to lo + 256 * hi, advances ip by exactly 3 and changes nothing    *)
(* else.                                                                   *)
C18_MovImm ==
    (RunningStep /\ OpcodeAt(last.pre) \in {184, 187, 185}) =>
        LET r == last.pre.regs
            op == OpcodeAt(last.pre)
            imm == ByteAt(last.pre, 1) + 256 * ByteAt(last.pre, 2)
            r1 == [r EXCEPT !.ip = (r.ip + 3) % U16]
        IN  /\ ~panicked
            /\ regs = IF op = 184 THEN [r1 EXCEPT !.ax = imm]
                      ELSE IF op = 187 THEN [r1 EXCEPT !.bx = imm]
                      ELSE [r1 EXCEPT !.cx = imm]
            /\ memory = last.pre.memory /\ halted = last.pre.halted

(* The pushes of C19: a push(v) call, or a step executing 0x50 (v = ax) *)
IsPush == last.op = "push" \/ (RunningStep /\ OpcodeAt(last.pre) = 80)

(* C19: push(v) from stack pointer s sets sp to (s - 2) mod 65536, stores  *)
(* v mod 256 at sp and v div 256 at sp + 1 and changes no other memory     *)
(* byte, no other register and no flag; 0x50 does this with v = ax.        *)
C19_PushLayout ==
    IsPush =>
        LET r == last.pre.regs
            v == IF last.op = "push" THEN last.arg ELSE r.ax
            sp1 == (r.sp - 2) % U16
        IN  /\ ~panicked
            /\ regs = IF last.op = "push" THEN [r EXCEPT !.sp = sp1]
                      ELSE [r EXCEPT !.sp = sp1, !.ip = (r.ip + 1) % U16]
            /\ MemRead(memory, sp1) = v % 256
            /\ MemRead(memory, sp1 + 1) = v \div 256
            /\ \A x \in (DOMAIN memory \cup DOMAIN last.pre.memory) \ {sp1, sp1 + 1} :
                   MemRead(memory, x) = MemRead(last.pre.memory, x)
            /\ halted = last.pre.halted

(* C20: in every state reached from a fresh CPU by step and pop calls sp   *)
(* is even, so sp + 1 <= 0xFFFF and no stack access leaves the memory.     *)
C20_SpEven ==
    /\ regs.sp % 2 = 0
    /\ regs.sp + 1 <= 65535
    /\ \A i \in last.acc : i < MEM_SIZE

C20_Witness ==
    /\ last.op = "step" /\ OpcodeAt(last.pre) = 88
    /\ prev.op = "step" /\ OpcodeAt(prev.pre) = 80
    /\ regs.sp = STACK_START

====
